---- MODULE Spec2Model ----
(***************************************************************************)
(* Model of viawifi::WiFiInfoManager (src/WiFiInfoManager.h, .cpp): the    *)
(* manager of the Wi-Fi credentials kept in the EEPROM area.               *)
(*                                                                         *)
(* A char buffer is a function 1..size -> Byte; a C string is the sequence *)
(* of the bytes before the first NUL.  The two buffers of wifi_info are    *)
(* scaled from 33 and 64 bytes down to SsidSize and PwdSize.               *)
(***************************************************************************)
EXTENDS Integers, Sequences, FiniteSets, TLC

\* '\0', the terminator of a C string.
NUL == 0
\* 0xFF, the value of an EEPROM cell that was never written.
ERASED == 255

\* sizeof(wifi_info::ssid), 33 in the source.
SsidSize == 3
\* sizeof(wifi_info::password), 64 in the source.
PwdSize == 4
\* The byte values followed: the terminator, a text character, the erased cell.
Byte == {NUL, 65, ERASED}

EEPROM_SIZE == SsidSize + PwdSize

-----------------------------------------------------------------------------
(* C strings and char buffers *)

Buffer(size) == [1..size -> Byte]

HasNul(buf) == \E i \in DOMAIN buf : buf[i] = NUL

NulPos(buf) == CHOOSE i \in DOMAIN buf : buf[i] = NUL /\ \A j \in 1..(i - 1) : buf[j] /= NUL

\* The C string a char buffer holds: the bytes before the first NUL.
Str(buf) == IF HasNul(buf) THEN SubSeq(buf, 1, NulPos(buf) - 1) ELSE buf

\* The string of k bytes c.
Rep(c, k) == [i \in 1..k |-> c]

\* The C strings passed in for a buffer of `size` bytes, terminator included:
\* the empty string, and a byte of `chars` repeated to the longest that fits.
CStrings(size, chars) == {Rep(c, k) : c \in chars, k \in {0, size - 1}}

\* The strings a buffer of `size` bytes can hold before its first NUL, made of
\* one byte of `chars` repeated.
Held(size, chars) == {Rep(c, k) : c \in chars, k \in 0..(size - 1)}

\* strcpy(dst, src): the bytes of src, then the terminator; the bytes of dst
\* after the terminator stay as they were.
strcpy(dst, src) ==
  [i \in DOMAIN dst |-> IF i <= Len(src) THEN src[i]
                        ELSE IF i = Len(src) + 1 THEN NUL
                        ELSE dst[i]]

\* A wifi_info object whose storage was never initialized: every byte is `fill`.
wifi_info(fill) == [ssid |-> [i \in 1..SsidSize |-> fill], password |-> [i \in 1..PwdSize |-> fill]]

\* A field of the EEPROM record: erased (first cell 0xFF), or written by
\* EEPROM.put from a wifi_info, whose buffers hold NUL-terminated strings.
MediumField(size) == {f \in Buffer(size) : f[1] = ERASED \/ HasNul(f)}

MediumRecords == [ssid : MediumField(SsidSize), password : MediumField(PwdSize)]

\* The fields the EEPROM record starts with: erased cells followed by anything
\* (0xFF from the factory, text, zeros), or a string, its terminator and what
\* the buffer held after it.
InitialField(size) ==
  {[i \in 1..size |-> IF i = 1 THEN ERASED ELSE t] : t \in Byte}
  \cup {[i \in 1..size |-> IF i <= Len(s) THEN s[i] ELSE IF i = Len(s) + 1 THEN NUL ELSE t] :
          s \in Held(size, Byte \ {NUL, ERASED}), t \in Byte}

InitialRecords == [ssid : InitialField(SsidSize), password : InitialField(PwdSize)]

-----------------------------------------------------------------------------
VARIABLES
  ap_config,      \* wifi_info ap_config
  client_config,  \* wifi_info client_config
  is_enable,      \* bool is_enable
  eeprom,         \* the wifi_info record at offset 0 of the EEPROM area
  attempted,      \* init() was called on this instance
  persisted,      \* the strings the latest store() wrote, if any
  last            \* the latest call of configure: its arguments, result and trace

vars == <<ap_config, client_config, is_enable, eeprom, attempted, persisted, last>>

-----------------------------------------------------------------------------
(* The member functions.  Each takes the state `m` it runs in: the object's  *)
(* members, the EEPROM record, the value returned (ret) and the trace of the *)
(* call of configure it is part of; it gives the state it leaves.            *)

\* The state in which a call of configure starts.
This ==
  [ap_config |-> ap_config, client_config |-> client_config, is_enable |-> is_enable,
   eeprom |-> eeprom, ret |-> FALSE,
   inits |-> 0, reads |-> 0, writes |-> 0, gets |-> 0, getRet |-> FALSE]

\* const bool init(): is_enable = EEPROM.begin(EEPROM_SIZE); return is_enable.
\* `beginOk` is what EEPROM.begin answers.
init(m, beginOk) ==
  [m EXCEPT !.is_enable = beginOk, !.inits = @ + 1, !.ret = beginOk]

\* restore() that goes on to read the record when init() failed.
restore_noReturn(m, beginOk) ==
  LET m1  == IF ~m.is_enable THEN init(m, beginOk) ELSE m
      buf == m1.eeprom
      s   == IF buf.ssid[1] /= ERASED
             THEN strcpy(m1.client_config.ssid, Str(buf.ssid))
             ELSE m1.client_config.ssid
      p   == IF buf.password[1] /= ERASED
             THEN strcpy(m1.client_config.password, Str(buf.password))
             ELSE m1.client_config.password
  IN [m1 EXCEPT !.client_config = [ssid |-> s, password |-> p],
                !.reads = @ + 1, !.ret = TRUE]

\* restore() that tests the first byte of the SSID for both fields.
restore_oneSentinel(m, beginOk) ==
  LET m1  == IF ~m.is_enable THEN init(m, beginOk) ELSE m
      buf == m1.eeprom
      s   == IF buf.ssid[1] /= ERASED
             THEN strcpy(m1.client_config.ssid, Str(buf.ssid))
             ELSE m1.client_config.ssid
      p   == IF buf.ssid[1] /= ERASED
             THEN strcpy(m1.client_config.password, Str(buf.password))
             ELSE m1.client_config.password
  IN IF ~m.is_enable /\ ~m1.ret
     THEN [m1 EXCEPT !.ret = FALSE]
     ELSE [m1 EXCEPT !.client_config = [ssid |-> s, password |-> p],
                     !.reads = @ + 1, !.ret = TRUE]

\* restore() that calls init() without looking at is_enable.
restore_alwaysInit(m, beginOk) ==
  LET m1  == init(m, beginOk)
      buf == m1.eeprom
      s   == IF buf.ssid[1] /= ERASED
             THEN strcpy(m1.client_config.ssid, Str(buf.ssid))
             ELSE m1.client_config.ssid
      p   == IF buf.password[1] /= ERASED
             THEN strcpy(m1.client_config.password, Str(buf.password))
             ELSE m1.client_config.password
  IN IF ~m1.ret
     THEN [m1 EXCEPT !.ret = FALSE]
     ELSE [m1 EXCEPT !.client_config = [ssid |-> s, password |-> p],
                     !.reads = @ + 1, !.ret = TRUE]

\* const bool restore().  buf.ssid[0] != 0xFF compares a char with the int
\* 255: char is unsigned on the ESP32 targets, so an erased cell compares equal.
\* A field that passes the test holds a NUL (TypeOK), so strcpy stops inside it.
restore(m, beginOk) ==
  LET m1  == IF ~m.is_enable THEN init(m, beginOk) ELSE m
      buf == m1.eeprom
      s   == IF buf.ssid[1] /= ERASED
             THEN strcpy(m1.client_config.ssid, Str(buf.ssid))
             ELSE m1.client_config.ssid
      p   == IF buf.password[1] /= ERASED
             THEN strcpy(m1.client_config.password, Str(buf.password))
             ELSE m1.client_config.password
  IN IF ~m.is_enable /\ ~m1.ret
     THEN [m1 EXCEPT !.ret = FALSE]
     ELSE [m1 EXCEPT !.client_config = [ssid |-> s, password |-> p],
                     !.reads = @ + 1, !.ret = TRUE]

\* store() that puts ap_config.
store_ap(m, beginOk) ==
  LET m1 == IF ~m.is_enable THEN init(m, beginOk) ELSE m
  IN IF ~m.is_enable /\ ~m1.ret
     THEN [m1 EXCEPT !.ret = FALSE]
     ELSE [m1 EXCEPT !.eeprom = m1.ap_config, !.writes = @ + 1, !.ret = TRUE]

\* const bool store(): EEPROM.put of client_config at offset 0, then commit,
\* whose result is not looked at.
store(m, beginOk) ==
  LET m1 == IF ~m.is_enable THEN init(m, beginOk) ELSE m
  IN IF ~m.is_enable /\ ~m1.ret
     THEN [m1 EXCEPT !.ret = FALSE]
     ELSE [m1 EXCEPT !.eeprom = m1.client_config, !.writes = @ + 1, !.ret = TRUE]

\* setAPConfig with the two copies crossed.
setAPConfig_swapped(m, ap_ssid, ap_password) ==
  [m EXCEPT !.ap_config = [ssid |-> strcpy(@.ssid, ap_password),
                           password |-> strcpy(@.password, ap_ssid)]]

\* void setAPConfig(const char* ap_ssid, const char* ap_password)
setAPConfig(m, ap_ssid, ap_password) ==
  [m EXCEPT !.ap_config = [ssid |-> strcpy(@.ssid, ap_ssid),
                           password |-> strcpy(@.password, ap_password)]]

\* void setClientConfig(const char* ssid, const char* password)
setClientConfig(m, ssid, password) ==
  [m EXCEPT !.client_config = [ssid |-> strcpy(@.ssid, ssid),
                               password |-> strcpy(@.password, password)]]

\* isReady() that compares the password.
isReady_password(m) == Str(m.client_config.password) /= <<>>

\* const bool isReady(): strcmp(client_config.ssid, "") != 0
isReady(m) == Str(m.client_config.ssid) /= <<>>

\* const bool get(): the body in the source is a placeholder that collects
\* nothing and returns false.
get(m) == [m EXCEPT !.gets = @ + 1, !.getRet = FALSE, !.ret = FALSE]

\* The collection flow that get() stands for, when the user supplied and
\* confirmed credentials: they are written through setClientConfig and the
\* answer is true.
Collector(m, ssid, password) ==
  [setClientConfig(m, ssid, password) EXCEPT !.gets = @ + 1, !.getRet = TRUE, !.ret = TRUE]

\* What a run of the collector gives: nothing (the get() of the source), or a
\* pair of strings that fit the buffers.
NoChange == [changed |-> FALSE, ssid |-> <<>>, password |-> <<>>]

Collected ==
  {NoChange} \cup [changed : {TRUE}, ssid : CStrings(SsidSize, Byte \ {NUL}),
                                     password : CStrings(PwdSize, Byte \ {NUL})]

\* The AP settings the firmware passes to configure: text that fits.
APConfigs == (CStrings(SsidSize, Byte \ {NUL}) \ {<<>>}) \X (CStrings(PwdSize, {65}) \ {<<>>})

\* configure with the test of is_config inverted.
configure_inverted(m, ap_ssid, ap_password, is_config, beginOk, user) ==
  LET m1 == setAPConfig(m, ap_ssid, ap_password)
      m2 == setClientConfig(m1, <<>>, <<>>)
      m3 == restore(m2, beginOk)
      m4 == IF user.changed THEN Collector(m3, user.ssid, user.password) ELSE get(m3)
      m5 == IF m4.ret THEN store(m4, beginOk) ELSE m4
  IN IF ~m3.ret THEN [m3 EXCEPT !.ret = FALSE]
     ELSE IF is_config /\ isReady(m3) THEN [m3 EXCEPT !.ret = TRUE]
     ELSE [m5 EXCEPT !.ret = FALSE]

\* configure that takes the readiness shortcut whatever is_config is.
configure_readyFirst(m, ap_ssid, ap_password, is_config, beginOk, user) ==
  LET m1 == setAPConfig(m, ap_ssid, ap_password)
      m2 == setClientConfig(m1, <<>>, <<>>)
      m3 == restore(m2, beginOk)
      m4 == IF user.changed THEN Collector(m3, user.ssid, user.password) ELSE get(m3)
      m5 == IF m4.ret THEN store(m4, beginOk) ELSE m4
  IN IF ~m3.ret THEN [m3 EXCEPT !.ret = FALSE]
     ELSE IF isReady(m3) THEN [m3 EXCEPT !.ret = TRUE]
     ELSE [m5 EXCEPT !.ret = FALSE]

\* configure that returns what get() and store() answered.
configure_returnsGet(m, ap_ssid, ap_password, is_config, beginOk, user) ==
  LET m1 == setAPConfig(m, ap_ssid, ap_password)
      m2 == setClientConfig(m1, <<>>, <<>>)
      m3 == restore(m2, beginOk)
      m4 == IF user.changed THEN Collector(m3, user.ssid, user.password) ELSE get(m3)
      m5 == IF m4.ret THEN store(m4, beginOk) ELSE m4
  IN IF ~m3.ret THEN [m3 EXCEPT !.ret = FALSE]
     ELSE IF ~is_config /\ isReady(m3) THEN [m3 EXCEPT !.ret = TRUE]
     ELSE m5

\* configure that stores whatever get() answered.
configure_alwaysStore(m, ap_ssid, ap_password, is_config, beginOk, user) ==
  LET m1 == setAPConfig(m, ap_ssid, ap_password)
      m2 == setClientConfig(m1, <<>>, <<>>)
      m3 == restore(m2, beginOk)
      m4 == IF user.changed THEN Collector(m3, user.ssid, user.password) ELSE get(m3)
      m5 == store(m4, beginOk)
  IN IF ~m3.ret THEN [m3 EXCEPT !.ret = FALSE]
     ELSE IF ~is_config /\ isReady(m3) THEN [m3 EXCEPT !.ret = TRUE]
     ELSE [m5 EXCEPT !.ret = FALSE]

\* const bool configure(const char* ap_ssid, const char* ap_password, const bool is_config)
configure(m, ap_ssid, ap_password, is_config, beginOk, user) ==
  LET m1 == setAPConfig(m, ap_ssid, ap_password)
      m2 == setClientConfig(m1, <<>>, <<>>)
      m3 == restore(m2, beginOk)
      m4 == IF user.changed THEN Collector(m3, user.ssid, user.password) ELSE get(m3)
      m5 == IF m4.ret THEN store(m4, beginOk) ELSE m4
  IN IF ~m3.ret THEN [m3 EXCEPT !.ret = FALSE]
     ELSE IF ~is_config /\ isReady(m3) THEN [m3 EXCEPT !.ret = TRUE]
     ELSE [m5 EXCEPT !.ret = FALSE]

\* const char* getAPSSID(), getAPPassword(), getSSID(), getPassword()
getAPSSID == Str(ap_config.ssid)

getAPPassword == Str(ap_config.password)

getSSID == Str(client_config.ssid)

getPassword == Str(client_config.password)

-----------------------------------------------------------------------------
(* The state machine *)

NoCall ==
  [op |-> "none", is_config |-> FALSE, ap_ssid |-> <<>>, ap_password |-> <<>>,
   enabled |-> FALSE, ret |-> FALSE,
   inits |-> 0, reads |-> 0, writes |-> 0, gets |-> 0, getRet |-> FALSE]

NotPersisted == [written |-> FALSE, ssid |-> <<>>, password |-> <<>>]

\* WiFiInfoManager() = default: is_enable is false; the two records are not
\* initialized (zero in static storage, anything elsewhere).
Constructed(fill) ==
  /\ ap_config = wifi_info(fill)
  /\ client_config = wifi_info(fill)
  /\ is_enable = FALSE
  /\ attempted = FALSE

Init ==
  /\ \E fill \in Byte : Constructed(fill)
  /\ eeprom \in InitialRecords
  /\ persisted = NotPersisted
  /\ last = NoCall

\* One call of configure, by the firmware.  EEPROM.begin answers only when it
\* is called, and the user is asked only when get() runs.
Configure(ap_ssid, ap_password, is_config, beginOk, user) ==
  /\ is_enable => beginOk
  /\ \E m \in {configure(This, ap_ssid, ap_password, is_config, beginOk, user)} :
        /\ m.gets = 0 => user = NoChange
        /\ ap_config' = m.ap_config
        /\ client_config' = m.client_config
        /\ is_enable' = m.is_enable
        /\ eeprom' = m.eeprom
        /\ attempted' = (attempted \/ m.inits > 0)
        /\ persisted' = IF m.writes > 0
                        THEN [written |-> TRUE, ssid |-> Str(m.client_config.ssid),
                              password |-> Str(m.client_config.password)]
                        ELSE persisted
        /\ last' = [op |-> "configure", is_config |-> is_config,
                    ap_ssid |-> ap_ssid, ap_password |-> ap_password,
                    enabled |-> is_enable, ret |-> m.ret,
                    inits |-> m.inits, reads |-> m.reads, writes |-> m.writes,
                    gets |-> m.gets, getRet |-> m.getRet]

\* The device restarts: a new instance over the same EEPROM area.
NewInstance(fill) ==
  /\ last.op = "configure"
  /\ ap_config' = wifi_info(fill)
  /\ client_config' = wifi_info(fill)
  /\ is_enable' = FALSE
  /\ attempted' = FALSE
  /\ last' = NoCall
  /\ UNCHANGED <<eeprom, persisted>>

Next ==
  \/ \E ap \in APConfigs, is_config \in BOOLEAN, beginOk \in BOOLEAN, user \in Collected :
       Configure(ap[1], ap[2], is_config, beginOk, user)
  \/ \E fill \in Byte : NewInstance(fill)

Spec == Init /\ [][Next]_vars

TypeOK ==
  /\ ap_config \in [ssid : Buffer(SsidSize), password : Buffer(PwdSize)]
  /\ client_config \in [ssid : Buffer(SsidSize), password : Buffer(PwdSize)]
  /\ is_enable \in BOOLEAN
  /\ eeprom \in MediumRecords
  /\ Len(eeprom.ssid) + Len(eeprom.password) = EEPROM_SIZE
  /\ attempted \in BOOLEAN

-----------------------------------------------------------------------------
(* Properties *)

\* What restore leaves in a cleared buffer for a field of the EEPROM record.
Restored(field) == IF field[1] = ERASED THEN <<>> ELSE Str(field)

\* What comes back of a string that went through store and restore.
Kept(str) == IF str /= <<>> /\ str[1] = ERASED THEN <<>> ELSE str

\* C1: when the EEPROM record holds a non-empty SSID (first byte neither NUL
\* nor 0xFF) and the EEPROM area is initialized, configure with is_config
\* false returns true, does not call get() and leaves the record as it was.
C1_ReadyReturnsTrue ==
  [][(/\ last'.op = "configure"
      /\ ~last'.is_config
      /\ is_enable'
      /\ eeprom.ssid[1] \notin {NUL, ERASED})
     => (/\ last'.ret
         /\ last'.gets = 0
         /\ last'.writes = 0
         /\ eeprom' = eeprom)]_vars

C1_Witness ==
  /\ last.op = "configure"
  /\ ~last.is_config
  /\ is_enable
  /\ eeprom.ssid[1] \notin {NUL, ERASED}
  /\ last.ret
  /\ last.gets = 0

\* C2, as claimed: every call of configure with is_config true calls get(),
\* whatever the state of the record and of the EEPROM area.
C2_ForcedAlwaysCollects ==
  (last.op = "configure" /\ last.is_config) => last.gets = 1

\* C2, amended: a call of configure with is_config true calls get() exactly
\* when the EEPROM area is initialized (by this call or an earlier one),
\* whatever the record holds; when init() fails it does not.
C2_ForcedCollectsIffInitialized ==
  (last.op = "configure" /\ last.is_config) => (last.gets = 1 <=> is_enable)

C2_Witness ==
  /\ last.op = "configure"
  /\ last.is_config
  /\ last.gets = 1
  /\ last.writes = 0
  /\ eeprom.ssid[1] \notin {NUL, ERASED}

\* C3, as claimed: a call of configure on an instance that had not yet
\* initialized the EEPROM area, restoring the record store() wrote, leaves in
\* client_config the very SSID and password that were stored.
C3_RoundTrip ==
  (/\ last.op = "configure"
   /\ ~last.enabled
   /\ last.reads = 1
   /\ ~last.getRet
   /\ persisted.written)
  => (getSSID = persisted.ssid /\ getPassword = persisted.password)

\* C3, amended: each of the two strings comes back as it was stored unless its
\* first byte is 0xFF, in which case it comes back as the empty string.
C3_RoundTripUnlessErasedFirst ==
  (/\ last.op = "configure"
   /\ ~last.enabled
   /\ last.reads = 1
   /\ ~last.getRet
   /\ persisted.written)
  => (getSSID = Kept(persisted.ssid) /\ getPassword = Kept(persisted.password))

C3_Witness ==
  /\ last.op = "configure"
  /\ last.inits = 1
  /\ last.reads = 1
  /\ ~last.getRet
  /\ persisted.written
  /\ Len(persisted.ssid) = SsidSize - 1
  /\ Len(persisted.password) = PwdSize - 1
  /\ persisted.ssid[1] /= ERASED
  /\ persisted.password[1] /= ERASED
  /\ getSSID = persisted.ssid
  /\ getPassword = persisted.password

\* C4: a call of configure that calls get() returns false, whatever get()
\* answered and whether or not store() ran; configure returns true only with
\* is_config false, without calling get(), after restoring a non-empty SSID
\* from the EEPROM record.
C4_CollectorMeansFalse ==
  /\ last.gets = 1 => ~last.ret
  /\ last.ret => /\ last.op = "configure"
                 /\ ~last.is_config
                 /\ last.gets = 0
                 /\ last.reads = 1
                 /\ getSSID /= <<>>
                 /\ eeprom.ssid[1] /= ERASED
                 /\ getSSID = Str(eeprom.ssid)

C4_Witness ==
  /\ last.op = "configure"
  /\ last.gets = 1
  /\ last.getRet
  /\ last.writes = 1
  /\ getSSID /= <<>>
  /\ ~last.ret

\* C5: when init() fails, configure returns false for either value of
\* is_config, does not call get(), neither reads nor writes the EEPROM
\* record, leaves the AP record equal to its arguments and the client record
\* empty.
C5_InitFailure ==
  [][(last'.op = "configure" /\ ~is_enable')
     => (/\ ~last'.ret
         /\ last'.inits = 1
         /\ last'.gets = 0
         /\ last'.reads = 0
         /\ last'.writes = 0
         /\ eeprom' = eeprom
         /\ getAPSSID' = last'.ap_ssid
         /\ getAPPassword' = last'.ap_password
         /\ getSSID' = <<>>
         /\ getPassword' = <<>>)]_vars

C5_Witness ==
  /\ last.op = "configure"
  /\ ~is_enable
  /\ last.is_config
  /\ ~last.ret
  /\ eeprom.ssid[1] \notin {NUL, ERASED}
  /\ getAPSSID = last.ap_ssid
  /\ getSSID = <<>>

\* C6: on an EEPROM record of 0xFF bytes only, configure with is_config false
\* returns false and leaves the AP record equal to its arguments.
C6_NoPriorRecord ==
  [][(/\ last'.op = "configure"
      /\ ~last'.is_config
      /\ eeprom = wifi_info(ERASED))
     => (/\ ~last'.ret
         /\ getAPSSID' = last'.ap_ssid
         /\ getAPPassword' = last'.ap_password)]_vars

C6_Witness ==
  /\ last.op = "configure"
  /\ ~last.is_config
  /\ eeprom = wifi_info(ERASED)
  /\ last.gets = 1
  /\ ~last.ret
  /\ getAPSSID = last.ap_ssid
  /\ getAPPassword = last.ap_password

\* C7: after configure has cleared the client record and restored it, a field
\* whose first byte in the EEPROM record is 0xFF is the empty string, whatever
\* follows that byte, and a field whose first byte is not 0xFF is the string
\* of the record; the two fields are judged each on its own first byte.
C7_SentinelPerField ==
  [][(last'.op = "configure" /\ last'.reads = 1 /\ ~last'.getRet)
     => (/\ getSSID' = Restored(eeprom.ssid)
         /\ getPassword' = Restored(eeprom.password))]_vars

C7_Witness ==
  /\ last.op = "configure"
  /\ last.reads = 1
  /\ ~last.getRet
  /\ eeprom.ssid[1] = ERASED
  /\ eeprom.ssid[2] = 65
  /\ eeprom.password[1] = 65
  /\ getSSID = <<>>
  /\ getPassword /= <<>>

\* C8: readiness is the SSID alone.  With the EEPROM area initialized and
\* is_config false, a record whose SSID is empty or erased makes configure
\* call get() and return false, whatever its password; a record whose SSID is
\* not empty makes it return true, whatever its password.
C8_ReadyIsSsidOnly ==
  [][(last'.op = "configure" /\ is_enable' /\ ~last'.is_config)
     => IF eeprom.ssid[1] \in {NUL, ERASED}
        THEN /\ last'.gets = 1
             /\ ~last'.ret
             /\ ~last'.getRet => getSSID' = <<>>
        ELSE /\ last'.ret
             /\ getSSID' /= <<>>]_vars

C8_Witness ==
  /\ last.op = "configure"
  /\ ~last.is_config
  /\ last.gets = 1
  /\ ~last.getRet
  /\ eeprom.ssid[1] = NUL
  /\ getSSID = <<>>
  /\ getPassword /= <<>>
  /\ ~last.ret

\* C9, as claimed: is_enable turns true only at the first call of init() on
\* the instance.
C9_SetOnFirstAttempt ==
  [][(~is_enable /\ is_enable') => ~attempted]_vars

\* C9, amended: once is_enable is true every later call of configure leaves it
\* true and does not call init(); until then every call of configure calls
\* init(), so that the flag turns true at the first init() that succeeds.
C9_Latch ==
  [][last'.op = "configure"
     => IF is_enable
        THEN is_enable' /\ last'.inits = 0
        ELSE last'.inits = 1 /\ attempted']_vars

C9_Witness ==
  /\ last.op = "configure"
  /\ last.enabled
  /\ is_enable
  /\ last.inits = 0
  /\ last.reads = 1

\* C10: store() runs only after get() answered true.  A call of configure in
\* which get() is not called or answers false leaves the EEPROM record as it
\* was and the client record holding what restore read (nothing when init()
\* failed).
C10_WriteOnlyOnChange ==
  [][last'.op = "configure"
     => /\ last'.writes > 0 => (last'.gets = 1 /\ last'.getRet)
        /\ (last'.gets = 0 \/ ~last'.getRet)
           => /\ eeprom' = eeprom
              /\ last'.writes = 0
              /\ getSSID' = (IF is_enable' THEN Restored(eeprom.ssid) ELSE <<>>)
              /\ getPassword' = (IF is_enable' THEN Restored(eeprom.password) ELSE <<>>)]_vars

C10_Witness ==
  /\ last.op = "configure"
  /\ last.is_config
  /\ last.gets = 1
  /\ ~last.getRet
  /\ last.writes = 0
  /\ getSSID /= <<>>
  /\ ~persisted.written

====
